---------------------------- MODULE Spec2Model ----------------------------
(***************************************************************************)
(* A model of mm/thp_utilization.c: the periodic scanner that walks        *)
(* physical memory in quanta of THP_UTIL_SCAN_SIZE huge-page frames,       *)
(* classifies anonymous THPs by the number of non-zero pages, accumulates  *)
(* a histogram in thp_scan.buckets and, when the zone cursor wraps,        *)
(* copies it to thp_scan_debugfs, which thp_utilization_show prints.       *)
(*                                                                         *)
(* Page frame numbers are unsigned long (64 bit) in the source.  TLC's     *)
(* integers are 32 bit, so a pfn is kept as a pair                         *)
(* [hi, lo] that stands for hi * 2^31 + lo with 0 <= lo < 2^31; hi = -1    *)
(* stands for 2^33 - 1 (the top of a sign-extended value).                 *)
(***************************************************************************)
EXTENDS Integers, Sequences, FiniteSets, TLC

(* ------------------------------------------------------------------ *)
(* Program and platform constants                                       *)
(* ------------------------------------------------------------------ *)

\* #define THP_UTIL_BUCKET_NR 10
THP_UTIL_BUCKET_NR == 10

\* #define THP_UTIL_SCAN_SIZE 256
THP_UTIL_SCAN_SIZE == 256

\* Base pages per PMD huge page (x86-64, 4 KiB pages: 1 << (21 - 12)).
HPAGE_PMD_NR == 512

\* Bytes per PMD huge page (x86-64: 1 << 21).  The source uses this byte
\* count as the alignment mask of a page frame number.
HPAGE_PMD_SIZE == 2097152

\* Pages of a 1 GiB hugetlb folio (x86-64: 1 << (30 - 12)).
GIGANTIC_NR == 262144

\* INT_MAX: lo of a pfn pair ranges over 0..INT_MAX.
INT_MAX == 2147483647

\* The delay the work is re-armed with, schedule_delayed_work(.., HZ),
\* in units of the model's clock (one unit = HZ jiffies = one second).
HZ == 1

(* ------------------------------------------------------------------ *)
(* Bounds of the model                                                  *)
(* ------------------------------------------------------------------ *)

\* The clock stops at MaxTime: no firing is modelled after it.
MaxTime == 24

\* A firing runs at most MaxLate clock units after its timer expired.
MaxLate == 1

\* The monotonic clock reads at most MaxBoot when thp_scan_init runs.
MaxBoot == 1

\* With the work firing for ever, the clock is followed up to MaxLiveTime
\* and at most MaxLiveTime published passes are counted.
MaxLiveTime == 6

\* With a thp_utilization_show running, at most MaxShowPublish passes are
\* published.
MaxShowPublish == 2

\* thp_utilization_bucket is called with counts down to MaxOut below 0 and
\* up to MaxOut above HPAGE_PMD_NR.
MaxOut == 3

\* thp_number_utilized_pages is called on folios with up to MaxZero all-zero
\* pages, with up to MaxZero pages that are not all zero, and with up to
\* MaxZero all-zero pages fewer or more than HPAGE_PMD_NR.
MaxZero == 4

NULL == 0

(* ------------------------------------------------------------------ *)
(* unsigned long arithmetic on [hi, lo] pairs                           *)
(* ------------------------------------------------------------------ *)

U64(h, l) == [hi |-> h, lo |-> l]

\* p + n modulo 2^64, for 0 <= n <= INT_MAX.
U64Add(p, n) ==
    IF p.lo > INT_MAX - n
    THEN [hi |-> IF p.hi = -1 THEN 0 ELSE p.hi + 1, lo |-> (p.lo - (INT_MAX - n)) - 1]
    ELSE [hi |-> p.hi, lo |-> p.lo + n]

\* unsigned comparison of the hi parts: -1 stands for the largest.
HiLess(a, b) == IF (a < 0) = (b < 0) THEN a < b ELSE b < 0

\* a >= b as unsigned long.
U64Ge(a, b) == IF a.hi = b.hi THEN a.lo >= b.lo ELSE HiLess(b.hi, a.hi)

U64Le(a, b) == U64Ge(b, a)

\* (int) p : the low 32 bits of p read as a signed int.
ToInt(p) == IF p.hi % 2 = 0 THEN p.lo ELSE (p.lo - INT_MAX) - 1

\* (unsigned long) v for an int v : sign extension.
FromInt(v) == IF v >= 0 THEN [hi |-> 0, lo |-> v] ELSE [hi |-> -1, lo |-> (v + INT_MAX) + 1]

\* p & ~(m - 1) for a power of two m that divides 2^31.
MaskLow(p, m) == [hi |-> p.hi, lo |-> p.lo - (p.lo % m)]

(* ------------------------------------------------------------------ *)
(* The page-frame database: zones, pages, folios                        *)
(* ------------------------------------------------------------------ *)

\* struct zone: the fields the scanner reads.
Zone(start, spanned, managed) ==
    [zone_start_pfn |-> start, spanned_pages |-> spanned, managed |-> managed]

\* zone_end_pfn(zone) = zone->zone_start_pfn + zone->spanned_pages
zone_end_pfn(z) == U64Add(z.zone_start_pfn, z.spanned_pages)

\* managed_zone(zone): the zone has pages managed by the buddy allocator.
managed_zone(z) == z.managed

\* first_online_pgdat()->node_zones: the first zone of the first node.
\* Zones are numbered 1..Len(zs) in for_each_zone order.
first_zone == 1

\* next_zone(zone): the following zone of the node, else the first zone of
\* the next online node, else NULL.
next_zone(zs, z) == IF z < Len(zs) THEN z + 1 ELSE NULL

\* What a page frame holds: whether pfn_to_online_page finds a page there
\* and, of the folio page_folio gives for it, whether it is anonymous, whether
\* it is large, its number of pages and how many of them are all zero.
Page(online, anon, large, nr, zero) ==
    [online |-> online, anon |-> anon, large |-> large, nr_pages |-> nr, nr_zero |-> zero]

NoPage == Page(FALSE, FALSE, FALSE, 0, 0)

\* An anonymous PMD-sized THP with `zero` all-zero pages.
AnonThp(zero) == Page(TRUE, TRUE, TRUE, HPAGE_PMD_NR, zero)

\* A page-cache (file) THP.
FileThp(zero) == Page(TRUE, FALSE, TRUE, HPAGE_PMD_NR, zero)

\* An ordinary anonymous base page.
SmallAnon(zero) == Page(TRUE, TRUE, FALSE, 1, zero)

\* An anonymous 1 GiB hugetlb folio.
AnonGigantic(zero) == Page(TRUE, TRUE, TRUE, GIGANTIC_NR, zero)

\* pfn_to_online_page(pfn): the page of an online frame, else NULL (NoPage).
pfn_to_online_page(m, p) == IF p \in DOMAIN m THEN m[p] ELSE NoPage

Low(l) == U64(0, l)

\* One node: ZONE_DMA from pfn 1, ZONE_DMA32 behind it, an empty unmanaged
\* ZONE_NORMAL.
LayoutA ==
    << Zone(Low(1), 4095, TRUE), Zone(Low(4096), 153600, TRUE), Zone(Low(0), 0, FALSE) >>

\* An empty first zone, then two zones above 8 GiB, the first of them
\* starting on a multiple of HPAGE_PMD_SIZE frames, the second ending
\* off a huge-page boundary.
LayoutB ==
    << Zone(Low(0), 0, FALSE), Zone(Low(2097152), 5120, TRUE), Zone(Low(2102272), 2000, TRUE) >>

\* A low zone, a zone that spans frame 2^31 (8 TiB) and a last zone that
\* starts at frame 2^32 (16 TiB).
LayoutC ==
    << Zone(Low(0), 2048, TRUE), Zone(U64(0, 2147483548), 1600, TRUE), Zone(U64(2, 0), 1024, TRUE) >>

\* A single small zone.
LayoutD == << Zone(Low(0), 1024, TRUE) >>

\* A zone with anonymous THPs between two zones that span frames but have
\* no managed pages.
LayoutE ==
    << Zone(Low(0), 1024, FALSE), Zone(Low(1024), 1024, TRUE), Zone(Low(2048), 1024, FALSE) >>

EmptyMem == [p \in {} |-> NoPage]

\* The machines the model runs on: a zone list and the content of memory.
Scenarios ==
    { [zones |-> LayoutA, mem |-> EmptyMem],
      [zones |-> LayoutA,
       mem |-> (Low(512) :> AnonThp(511)) @@ (Low(8192) :> AnonThp(0))
               @@ (Low(131072) :> AnonThp(256))],
      [zones |-> LayoutA,
       mem |-> (Low(512) :> FileThp(0)) @@ (Low(8192) :> SmallAnon(1))
               @@ (Low(131072) :> AnonGigantic(1000))],
      [zones |-> LayoutB,
       mem |-> (Low(2097152) :> AnonThp(461)) @@ (Low(2102272) :> AnonThp(512))],
      [zones |-> LayoutB,
       mem |-> (Low(2097664) :> AnonGigantic(0)) @@ (Low(2102784) :> AnonThp(205))],
      [zones |-> LayoutC,
       mem |-> (Low(0) :> AnonThp(100)) @@ (Low(512) :> AnonThp(205))
               @@ (U64(1, 0) :> AnonThp(0)) @@ (U64(2, 0) :> AnonThp(1))],
      [zones |-> LayoutC, mem |-> (Low(1024) :> SmallAnon(0)) @@ (U64(1, 512) :> AnonThp(7))],
      [zones |-> LayoutD, mem |-> (Low(0) :> AnonThp(511)) @@ (Low(512) :> AnonThp(3))],
      [zones |-> LayoutD, mem |-> EmptyMem],
      [zones |-> LayoutE, mem |-> (Low(1024) :> AnonThp(10)) @@ (Low(1536) :> AnonThp(300))] }

(* ------------------------------------------------------------------ *)
(* The pure functions                                                   *)
(* ------------------------------------------------------------------ *)

Min(a, b) == IF a < b THEN a ELSE b

Buckets == 0 .. (THP_UTIL_BUCKET_NR - 1)

\* thp_utilization_bucket without the clamp to the last bucket.
thp_utilization_bucket_no_clamp(num_utilized_pages) ==
    IF num_utilized_pages < 0 \/ num_utilized_pages > HPAGE_PMD_NR
    THEN -1
    ELSE (num_utilized_pages * THP_UTIL_BUCKET_NR) \div HPAGE_PMD_NR

\* static int thp_utilization_bucket(int num_utilized_pages)
thp_utilization_bucket(num_utilized_pages) ==
    IF num_utilized_pages < 0 \/ num_utilized_pages > HPAGE_PMD_NR
    THEN -1
    ELSE Min((num_utilized_pages * THP_UTIL_BUCKET_NR) \div HPAGE_PMD_NR,
             THP_UTIL_BUCKET_NR - 1)

\* static int thp_number_utilized_pages(struct folio *folio): starts at
\* HPAGE_PMD_NR and is decremented once for each of the folio_nr_pages(folio)
\* pages in which memchr_inv finds no non-zero byte.
thp_number_utilized_pages(folio) ==
    IF ~folio.online \/ ~folio.anon \/ ~folio.large
    THEN -1
    ELSE HPAGE_PMD_NR - folio.nr_zero

\* thp_utilization_show, the bucket's printed range: <<start, end>>.
show_range(i) ==
    << (i * HPAGE_PMD_NR) \div THP_UTIL_BUCKET_NR,
       IF i + 1 = THP_UTIL_BUCKET_NR
       THEN HPAGE_PMD_NR
       ELSE (((i + 1) * HPAGE_PMD_NR) \div THP_UTIL_BUCKET_NR) - 1 >>

(* ------------------------------------------------------------------ *)
(* State                                                                *)
(* ------------------------------------------------------------------ *)

VARIABLES
    scan_zone,   \* thp_scan.scan_zone: NULL or a zone number
    pfn,         \* thp_scan.pfn
    buckets,     \* thp_scan.buckets: the accumulator of the pass in progress
    debugfs,     \* thp_scan_debugfs: buckets, last_scan_time, last_scan_duration
    zones,       \* the zone list of the machine
    mem,         \* what each populated huge-page frame holds
    now,         \* the monotonic clock
    fired,       \* what the last firing of the work did
    lookups,     \* the frames the last firing passed to pfn_to_online_page
    pass_valid,  \* steps of the pass in progress that found an online,
                 \* anonymous, large unit with a count within 0..HPAGE_PMD_NR
    pass_util,   \* per bucket, the sum of the utilized counts added to it
    pub_valid,   \* pass_valid of the pass last published
    pub_util,    \* pass_util of the pass last published
    npublish,    \* how many passes were published
    call,        \* a call of thp_utilization_bucket, of the range computation
                 \* of thp_utilization_show and of thp_number_utilized_pages:
                 \* inputs and results
    writer,      \* where the work is within the update of thp_scan_debugfs
    reader,      \* where a thp_utilization_show is, and what it has read
    history,     \* the values of thp_scan_debugfs: the initial one and the
                 \* one each update was to leave
    work,        \* thp_utilization_work: whether it is queued, and its delay
    init_time,   \* the clock when thp_scan_init armed the work
    pass_lookups \* the frames the pass in progress has looked up, in order

progVars == << scan_zone, pfn, buckets, debugfs, work >>
envVars == << zones, mem, now, init_time >>
obsVars == << fired, lookups, pass_valid, pass_util, pub_valid, pub_util, npublish,
              pass_lookups >>
showVars == << writer, reader, history >>

\* A zeroed struct thp_scan_info_bucket array (static storage, memset).
ZeroBuckets == [b \in Buckets |-> [nr_thps |-> 0, nr_zero_pages |-> 0]]

ZeroCounts == [b \in Buckets |-> 0]

\* The zero-initialised static struct thp_scan_debugfs.
ZeroDebugfs ==
    [buckets |-> ZeroBuckets, last_scan_time |-> 0, last_scan_duration |-> 0]

(* ------------------------------------------------------------------ *)
(* thp_scan_next_zone                                                   *)
(* ------------------------------------------------------------------ *)

\* timespec64_sub(lhs, rhs) on times counted in clock units.
timespec64_sub(lhs, rhs) == lhs - rhs

\* (zone_start_pfn + HPAGE_PMD_NR - 1) & ~(HPAGE_PMD_SIZE - 1)
first_scan_pfn(z) ==
    MaskLow(U64Add(z.zone_start_pfn, HPAGE_PMD_NR - 1), HPAGE_PMD_SIZE)

\* update_debugfs with the operands of timespec64_sub exchanged.
update_debugfs_swapped_sub(dbg, bk, current_time) ==
    [last_scan_duration |-> timespec64_sub(dbg.last_scan_time, current_time),
     last_scan_time |-> current_time,
     buckets |-> bk]

\* The update of thp_scan_debugfs when a pass is complete: the duration
\* since the previous update, the time of this one, the copy of the buckets.
update_debugfs(dbg, bk, current_time) ==
    [last_scan_duration |-> timespec64_sub(current_time, dbg.last_scan_time),
     last_scan_time |-> current_time,
     buckets |-> bk]

\* thp_scan_next_zone with the memset of thp_scan.buckets before the memcpy.
thp_scan_next_zone_clear_first(zs, z, bk, dbg, current_time) ==
    LET nz == next_zone(zs, z)
        upd == (nz = NULL)
        z2 == IF upd THEN first_zone ELSE nz
    IN  [scan_zone |-> z2,
         pfn |-> MaskLow(U64Add(zs[z2].zone_start_pfn, HPAGE_PMD_NR - 1), HPAGE_PMD_SIZE),
         update_debugfs |-> upd,
         debugfs |-> IF upd
                     THEN [last_scan_duration |-> current_time - dbg.last_scan_time,
                           last_scan_time |-> current_time,
                           buckets |-> ZeroBuckets]
                     ELSE dbg,
         buckets |-> IF upd THEN ZeroBuckets ELSE bk]

\* thp_scan_next_zone without the early return of a zone advance that
\* does not complete the pass.
thp_scan_next_zone_no_return(zs, z, bk, dbg, current_time) ==
    LET nz == next_zone(zs, z)
        upd == (nz = NULL)
        z2 == IF upd THEN first_zone ELSE nz
    IN  [scan_zone |-> z2,
         pfn |-> MaskLow(U64Add(zs[z2].zone_start_pfn, HPAGE_PMD_NR - 1), HPAGE_PMD_SIZE),
         update_debugfs |-> upd,
         debugfs |-> [last_scan_duration |-> current_time - dbg.last_scan_time,
                      last_scan_time |-> current_time,
                      buckets |-> bk],
         buckets |-> ZeroBuckets]

\* static void thp_scan_next_zone(void), from the zone z the cursor is in:
\* the cursor, the accumulator and thp_scan_debugfs it leaves, and whether
\* it updated thp_scan_debugfs.
thp_scan_next_zone(zs, z, bk, dbg, current_time) ==
    LET nz == next_zone(zs, z)
        upd == (nz = NULL)
        z2 == IF upd THEN first_zone ELSE nz
    IN  [scan_zone |-> z2,
         pfn |-> first_scan_pfn(zs[z2]),
         update_debugfs |-> upd,
         debugfs |-> IF upd THEN update_debugfs(dbg, bk, current_time) ELSE dbg,
         buckets |-> IF upd THEN ZeroBuckets ELSE bk]

(* ------------------------------------------------------------------ *)
(* thp_util_scan                                                        *)
(* ------------------------------------------------------------------ *)

\* bucket_add without the increment of nr_thps.
bucket_add_no_count(bk, bucket, num_utilized_pages) ==
    [bk EXCEPT ![bucket] =
        [nr_thps |-> @.nr_thps,
         nr_zero_pages |-> @.nr_zero_pages + (HPAGE_PMD_NR - num_utilized_pages)]]

\* bucket_add adding the utilized pages instead of the zero pages.
bucket_add_utilized(bk, bucket, num_utilized_pages) ==
    [bk EXCEPT ![bucket] =
        [nr_thps |-> @.nr_thps + 1,
         nr_zero_pages |-> @.nr_zero_pages + num_utilized_pages]]

\* thp_scan.buckets[bucket].nr_thps++;
\* thp_scan.buckets[bucket].nr_zero_pages += HPAGE_PMD_NR - num_utilized_pages;
bucket_add(bk, bucket, num_utilized_pages) ==
    [bk EXCEPT ![bucket] =
        [nr_thps |-> @.nr_thps + 1,
         nr_zero_pages |-> @.nr_zero_pages + (HPAGE_PMD_NR - num_utilized_pages)]]

\* scan_step with return in place of continue where pfn_to_online_page
\* finds no page.
scan_step_return_on_skip(s, m, pfn_end) ==
    IF s.returned
    THEN s
    ELSE
      LET current_pfn == ToInt(s.pfn)
          s1 == [s EXCEPT !.pfn = U64Add(@, HPAGE_PMD_NR)]
      IN  IF U64Ge(FromInt(current_pfn), pfn_end)
          THEN [s1 EXCEPT !.returned = TRUE]
          ELSE
            LET page == pfn_to_online_page(m, FromInt(current_pfn))
                s2 == [s1 EXCEPT !.lookups = Append(@, FromInt(current_pfn))]
            IN  IF ~page.online
                THEN [s2 EXCEPT !.returned = TRUE]
                ELSE
                  LET num_utilized_pages == thp_number_utilized_pages(page)
                      bucket == thp_utilization_bucket(num_utilized_pages)
                  IN  IF bucket < 0
                      THEN s2
                      ELSE [s2 EXCEPT
                              !.buckets = bucket_add(@, bucket, num_utilized_pages)]

\* One iteration of the for loop of thp_util_scan.  s holds thp_scan.pfn and
\* thp_scan.buckets, the frames passed to pfn_to_online_page so far, and
\* whether the function has returned.
scan_step(s, m, pfn_end) ==
    IF s.returned
    THEN s
    ELSE
      LET current_pfn == ToInt(s.pfn)
          s1 == [s EXCEPT !.pfn = U64Add(@, HPAGE_PMD_NR)]
      IN  IF U64Ge(FromInt(current_pfn), pfn_end)
          THEN [s1 EXCEPT !.returned = TRUE]
          ELSE
            LET page == pfn_to_online_page(m, FromInt(current_pfn))
                s2 == [s1 EXCEPT !.lookups = Append(@, FromInt(current_pfn))]
            IN  IF ~page.online
                THEN s2
                ELSE
                  LET num_utilized_pages == thp_number_utilized_pages(page)
                      bucket == thp_utilization_bucket(num_utilized_pages)
                  IN  IF bucket < 0
                      THEN s2
                      ELSE [s2 EXCEPT
                              !.buckets = bucket_add(@, bucket, num_utilized_pages)]

\* Iterations i = from .. to - 1 of the for loop, in order (the range is
\* halved to keep the evaluation shallow, and the state after the first
\* half is bound as a value so that it is computed once).
RECURSIVE scan_loop(_, _, _, _, _)
scan_loop(from, to, s, m, pfn_end) ==
    IF to <= from
    THEN s
    ELSE IF to = from + 1
    THEN scan_step(s, m, pfn_end)
    ELSE LET mid == (from + to) \div 2
         IN  CHOOSE r \in { IF h.returned THEN h ELSE scan_loop(mid, to, h, m, pfn_end) :
                              h \in {scan_loop(from, mid, s, m, pfn_end)} } : TRUE

\* thp_util_scan with the loop condition i <= THP_UTIL_SCAN_SIZE.
thp_util_scan_one_more(p, bk, m, pfn_end) ==
    scan_loop(0, THP_UTIL_SCAN_SIZE + 1,
              [pfn |-> p, buckets |-> bk, lookups |-> << >>, returned |-> FALSE],
              m, pfn_end)

\* static void thp_util_scan(unsigned long pfn_end):
\* for (i = 0; i < THP_UTIL_SCAN_SIZE; i++) ...
thp_util_scan(p, bk, m, pfn_end) ==
    scan_loop(0, THP_UTIL_SCAN_SIZE,
              [pfn |-> p, buckets |-> bk, lookups |-> << >>, returned |-> FALSE],
              m, pfn_end)

(* ------------------------------------------------------------------ *)
(* What a pass encountered, counted from the frames that were looked up *)
(* ------------------------------------------------------------------ *)

\* The unit at a frame is online, anonymous and large, and the number of
\* its pages that are not all zero, counted down from HPAGE_PMD_NR, lies
\* within 0..HPAGE_PMD_NR.
ValidUnit(page) ==
    /\ page.online /\ page.anon /\ page.large
    /\ HPAGE_PMD_NR - page.nr_zero >= 0
    /\ HPAGE_PMD_NR - page.nr_zero <= HPAGE_PMD_NR

\* The bucket whose range [i*N/B, (i+1)*N/B) holds u, the last one closed at N.
RangeOf(u) ==
    CHOOSE i \in Buckets :
        /\ i * HPAGE_PMD_NR <= u * THP_UTIL_BUCKET_NR
        /\ \/ u * THP_UTIL_BUCKET_NR < (i + 1) * HPAGE_PMD_NR
           \/ i = THP_UTIL_BUCKET_NR - 1

\* The positions of lk that hold a frame with a valid unit.
ValidAt(lk, m) ==
    { k \in 1 .. Len(lk) : ValidUnit(pfn_to_online_page(m, lk[k])) }

\* Of the positions K, the ones whose utilized count falls in the range of
\* bucket b.
ValidIn(K, lk, m, b) ==
    { k \in K : RangeOf(HPAGE_PMD_NR - pfn_to_online_page(m, lk[k]).nr_zero) = b }

RECURSIVE SumUtil(_, _, _)
SumUtil(K, lk, m) ==
    IF K = {}
    THEN 0
    ELSE LET k == CHOOSE x \in K : TRUE
         IN  (HPAGE_PMD_NR - pfn_to_online_page(m, lk[k]).nr_zero)
             + SumUtil(K \ {k}, lk, m)

(* ------------------------------------------------------------------ *)
(* thp_utilization_workfn                                               *)
(* ------------------------------------------------------------------ *)

\* if (!thp_scan.scan_zone) thp_scan.scan_zone = first_online_pgdat()->node_zones
cur_zone == IF scan_zone = NULL THEN first_zone ELSE scan_zone

\* The test of line 193 without !managed_zone(thp_scan.scan_zone).
zone_done_no_managed == U64Ge(pfn, zone_end_pfn(zones[cur_zone]))

\* !managed_zone(thp_scan.scan_zone) || thp_scan.pfn >= pfn_end
zone_done ==
    \/ ~managed_zone(zones[cur_zone])
    \/ U64Ge(pfn, zone_end_pfn(zones[cur_zone]))

\* The delayed work while its function runs: it is no longer queued.
RunningWork == [pending |-> FALSE, delay |-> 0]

\* schedule_delayed_work(&thp_utilization_work, delay): queues the work to
\* run after delay unless it is queued already.
schedule_delayed_work(w, delay) ==
    IF w.pending THEN w ELSE [pending |-> TRUE, delay |-> delay]

\* thp_utilization_workfn without its last statement.
workfn_rearm_dropped(w) == w

\* The last statement of thp_utilization_workfn, on both branches:
\* schedule_delayed_work(&thp_utilization_work, HZ);
workfn_rearm(w) == schedule_delayed_work(w, HZ)

\* The queued work runs d clock units after it was armed (by thp_scan_init
\* or by the previous firing): not before its delay, at most MaxLate after.
TimerFires(d) ==
    /\ work.pending
    /\ d \in work.delay .. (work.delay + MaxLate)
    /\ now + d <= MaxTime
    /\ now' = now + d

\* A firing of thp_utilization_workfn that takes the thp_scan_next_zone branch.
workfn_next_zone ==
    /\ writer.pc = "idle"
    /\ zone_done
    /\ \E d \in HZ .. (HZ + MaxLate) :
         /\ TimerFires(d)
         /\ \E r \in {thp_scan_next_zone(zones, cur_zone, buckets, debugfs, now + d)} :
                /\ scan_zone' = r.scan_zone
                /\ pfn' = r.pfn
                /\ buckets' = r.buckets
                /\ debugfs' = r.debugfs
                /\ fired' = IF r.update_debugfs THEN "publish" ELSE "next_zone"
                /\ pub_valid' = IF r.update_debugfs THEN pass_valid ELSE pub_valid
                /\ pub_util' = IF r.update_debugfs THEN pass_util ELSE pub_util
                /\ pass_valid' = IF r.update_debugfs THEN 0 ELSE pass_valid
                /\ pass_util' = IF r.update_debugfs THEN ZeroCounts ELSE pass_util
                /\ npublish' = IF r.update_debugfs THEN npublish + 1 ELSE npublish
                /\ pass_lookups' = IF r.update_debugfs THEN << >> ELSE pass_lookups
    /\ work' = workfn_rearm(RunningWork)
    /\ lookups' = << >>
    /\ UNCHANGED << zones, mem, init_time, call, writer, reader, history >>

\* A firing of thp_utilization_workfn that takes the thp_util_scan branch.
workfn_scan ==
    /\ writer.pc = "idle"
    /\ ~zone_done
    /\ \E r \in {thp_util_scan(pfn, buckets, mem, zone_end_pfn(zones[cur_zone]))} :
       \E va \in {ValidAt(r.lookups, mem)} :
           /\ \E d \in HZ .. (HZ + MaxLate) : TimerFires(d)
           /\ scan_zone' = cur_zone
           /\ pfn' = r.pfn
           /\ buckets' = r.buckets
           /\ lookups' = r.lookups
           /\ pass_lookups' = pass_lookups \o r.lookups
           /\ pass_valid' = pass_valid + Cardinality(va)
           /\ pass_util' =
                [b \in Buckets |->
                    pass_util[b] + SumUtil(ValidIn(va, r.lookups, mem, b), r.lookups, mem)]
    /\ work' = workfn_rearm(RunningWork)
    /\ fired' = "scan"
    /\ UNCHANGED << debugfs, zones, mem, init_time, pub_valid, pub_util, npublish >>
    /\ UNCHANGED << call, writer, reader, history >>

vars == << scan_zone, pfn, buckets, debugfs, zones, mem, now,
           fired, lookups, pass_valid, pass_util, pub_valid, pub_util, npublish,
           call, writer, reader, history, work, init_time, pass_lookups >>

\* No call of the pure functions has been made.
NoCall ==
    [u |-> 0, i |-> 0, bucket_done |-> FALSE, show_done |-> FALSE,
     bucket |-> 0, range |-> << 0, 0 >>,
     folio |-> NoPage, utilized_done |-> FALSE, utilized |-> 0]

\* The work is not inside the update of thp_scan_debugfs.
WriterIdle == [pc |-> "idle", current_time |-> 0, dir |-> "up", left |-> {}]

\* No thp_utilization_show is running.
ReaderIdle == [pc |-> "idle", i |-> 0, view |-> ZeroDebugfs]

\* The state when thp_scan_init has armed the work for the first time, on
\* the machine sc: thp_scan and thp_scan_debugfs are zero-initialised statics.
InitOn(sc) ==
    /\ scan_zone = NULL
    /\ pfn = U64(0, 0)
    /\ buckets = ZeroBuckets
    /\ debugfs = ZeroDebugfs
    /\ zones = sc.zones
    /\ mem = sc.mem
    /\ now \in 0 .. MaxBoot
    /\ init_time = now
    /\ work = schedule_delayed_work(RunningWork, HZ)
    /\ pass_lookups = << >>
    /\ fired = "init"
    /\ lookups = << >>
    /\ pass_valid = 0
    /\ pass_util = ZeroCounts
    /\ pub_valid = 0
    /\ pub_util = ZeroCounts
    /\ npublish = 0
    /\ writer = WriterIdle
    /\ reader = ReaderIdle
    /\ history = {ZeroDebugfs}

Init == call = NoCall /\ \E sc \in Scenarios : InitOn(sc)

Next == workfn_next_zone \/ workfn_scan

Spec == Init /\ [][Next]_vars

(* ------------------------------------------------------------------ *)
(* The work firing for ever                                             *)
(*                                                                      *)
(* The same two firings with a clock that is followed up to            *)
(* MaxLiveTime and reads MaxLiveTime from then on, and a count of      *)
(* published passes that stops at MaxLiveTime, so that the work can    *)
(* fire without end.  The workqueue runs a queued work once its delay  *)
(* has expired.                                                        *)
(* ------------------------------------------------------------------ *)

\* The queued work runs d clock units after it was armed.
LiveTimerFires(d) ==
    /\ work.pending
    /\ d \in work.delay .. (work.delay + MaxLate)
    /\ now' = Min(now + d, MaxLiveTime)

\* A firing of thp_utilization_workfn that takes the thp_scan_next_zone branch.
live_next_zone ==
    /\ writer.pc = "idle"
    /\ zone_done
    /\ \E d \in HZ .. (HZ + MaxLate) :
         /\ LiveTimerFires(d)
         /\ \E r \in {thp_scan_next_zone(zones, cur_zone, buckets, debugfs,
                                         Min(now + d, MaxLiveTime))} :
                /\ scan_zone' = r.scan_zone
                /\ pfn' = r.pfn
                /\ buckets' = r.buckets
                /\ debugfs' = r.debugfs
                /\ fired' = IF r.update_debugfs THEN "publish" ELSE "next_zone"
                /\ pub_valid' = IF r.update_debugfs THEN pass_valid ELSE pub_valid
                /\ pub_util' = IF r.update_debugfs THEN pass_util ELSE pub_util
                /\ pass_valid' = IF r.update_debugfs THEN 0 ELSE pass_valid
                /\ pass_util' = IF r.update_debugfs THEN ZeroCounts ELSE pass_util
                /\ npublish' = IF r.update_debugfs THEN Min(npublish + 1, MaxLiveTime) ELSE npublish
                /\ pass_lookups' = IF r.update_debugfs THEN << >> ELSE pass_lookups
    /\ work' = workfn_rearm(RunningWork)
    /\ lookups' = << >>
    /\ UNCHANGED << zones, mem, init_time, call, writer, reader, history >>

\* A firing of thp_utilization_workfn that takes the thp_util_scan branch.
live_scan ==
    /\ writer.pc = "idle"
    /\ ~zone_done
    /\ \E r \in {thp_util_scan(pfn, buckets, mem, zone_end_pfn(zones[cur_zone]))} :
       \E va \in {ValidAt(r.lookups, mem)} :
           /\ \E d \in HZ .. (HZ + MaxLate) : LiveTimerFires(d)
           /\ scan_zone' = cur_zone
           /\ pfn' = r.pfn
           /\ buckets' = r.buckets
           /\ lookups' = r.lookups
           /\ pass_lookups' = pass_lookups \o r.lookups
           /\ pass_valid' = pass_valid + Cardinality(va)
           /\ pass_util' =
                [b \in Buckets |->
                    pass_util[b] + SumUtil(ValidIn(va, r.lookups, mem, b), r.lookups, mem)]
    /\ work' = workfn_rearm(RunningWork)
    /\ fired' = "scan"
    /\ UNCHANGED << debugfs, zones, mem, init_time, pub_valid, pub_util, npublish >>
    /\ UNCHANGED << call, writer, reader, history >>

NextLive == live_next_zone \/ live_scan

SpecLive == Init /\ [][NextLive]_vars /\ WF_vars(NextLive)

(* ------------------------------------------------------------------ *)
(* thp_utilization_show running while the work updates thp_scan_debugfs *)
(*                                                                      *)
(* Neither side takes a lock, so each load of the reader and each store *)
(* of the writer is a step of its own.  memcpy copies the buckets from  *)
(* the lowest address up or from the highest down.                      *)
(* ------------------------------------------------------------------ *)

SetMin(S) == CHOOSE x \in S : \A y \in S : x <= y
SetMax(S) == CHOOSE x \in S : \A y \in S : x >= y

\* thp_utilization_workfn taking the thp_scan_next_zone branch, up to and
\* including ktime_get_ts64(&current_time): the cursor moves to the next
\* zone and, when no zone was left, the update of thp_scan_debugfs begins.
conc_next_zone ==
    /\ writer.pc = "idle"
    /\ zone_done
    /\ \E d \in HZ .. (HZ + MaxLate) :
         /\ TimerFires(d)
         /\ \E r \in {thp_scan_next_zone(zones, cur_zone, buckets, debugfs, now + d)} :
                /\ r.update_debugfs => npublish < MaxShowPublish
                /\ scan_zone' = r.scan_zone
                /\ pfn' = r.pfn
                /\ fired' = IF r.update_debugfs THEN "publishing" ELSE "next_zone"
                /\ IF r.update_debugfs
                   THEN /\ \E dir \in {"up", "down"} :
                             writer' = [pc |-> "duration", current_time |-> now + d,
                                        dir |-> dir, left |-> Buckets]
                        /\ history' = history \cup {update_debugfs(debugfs, buckets, now + d)}
                        /\ work' = RunningWork
                   ELSE /\ work' = workfn_rearm(RunningWork)
                        /\ UNCHANGED << writer, history >>
    /\ lookups' = << >>
    /\ UNCHANGED << buckets, debugfs, zones, mem, init_time, call, reader >>
    /\ UNCHANGED << pass_valid, pass_util, pub_valid, pub_util, npublish, pass_lookups >>

\* thp_scan_debugfs.last_scan_duration = timespec64_sub(current_time,
\*                                          thp_scan_debugfs.last_scan_time);
conc_store_duration ==
    /\ writer.pc = "duration"
    /\ debugfs' = [debugfs EXCEPT !.last_scan_duration =
                      timespec64_sub(writer.current_time, debugfs.last_scan_time)]
    /\ writer' = [writer EXCEPT !.pc = "time"]
    /\ UNCHANGED << scan_zone, pfn, buckets, work, envVars, obsVars, call, reader, history >>

\* thp_scan_debugfs.last_scan_time = current_time;
conc_store_time ==
    /\ writer.pc = "time"
    /\ debugfs' = [debugfs EXCEPT !.last_scan_time = writer.current_time]
    /\ writer' = [writer EXCEPT !.pc = "memcpy"]
    /\ UNCHANGED << scan_zone, pfn, buckets, work, envVars, obsVars, call, reader, history >>

\* memcpy(&thp_scan_debugfs.buckets, &thp_scan.buckets, ...): one bucket.
conc_memcpy ==
    /\ writer.pc = "memcpy"
    /\ \E k \in {IF writer.dir = "up" THEN SetMin(writer.left) ELSE SetMax(writer.left)} :
         /\ debugfs' = [debugfs EXCEPT !.buckets[k] = buckets[k]]
         /\ writer' = [writer EXCEPT !.left = @ \ {k},
                                     !.pc = IF writer.left = {k} THEN "memset" ELSE "memcpy"]
    /\ UNCHANGED << scan_zone, pfn, buckets, work, envVars, obsVars, call, reader, history >>

\* memset(&thp_scan.buckets, 0, ...), the return of thp_scan_next_zone and
\* schedule_delayed_work.
conc_memset ==
    /\ writer.pc = "memset"
    /\ buckets' = ZeroBuckets
    /\ writer' = WriterIdle
    /\ fired' = "publish"
    /\ pub_valid' = pass_valid
    /\ pub_util' = pass_util
    /\ pass_valid' = 0
    /\ pass_util' = ZeroCounts
    /\ npublish' = npublish + 1
    /\ pass_lookups' = << >>
    /\ work' = workfn_rearm(work)
    /\ UNCHANGED << scan_zone, pfn, debugfs, envVars, lookups, call, reader, history >>

\* thp_utilization_show is entered.
show_open ==
    /\ reader.pc = "idle"
    /\ reader' = [pc |-> "buckets", i |-> 0, view |-> ZeroDebugfs]
    /\ UNCHANGED << progVars, envVars, obsVars, call, writer, history >>

\* One iteration of its for loop: the loads of buckets[i].nr_thps and
\* buckets[i].nr_zero_pages.
show_bucket ==
    /\ reader.pc = "buckets"
    /\ reader' = [pc |-> IF reader.i + 1 < THP_UTIL_BUCKET_NR THEN "buckets" ELSE "time",
                  i |-> reader.i + 1,
                  view |-> [reader.view EXCEPT !.buckets[reader.i] = debugfs.buckets[reader.i]]]
    /\ UNCHANGED << progVars, envVars, obsVars, call, writer, history >>

\* The load of last_scan_time for "Last Scan Time".
show_time ==
    /\ reader.pc = "time"
    /\ reader' = [reader EXCEPT !.pc = "duration",
                                !.view.last_scan_time = debugfs.last_scan_time]
    /\ UNCHANGED << progVars, envVars, obsVars, call, writer, history >>

\* The load of last_scan_duration for "Last Scan Duration".
show_duration ==
    /\ reader.pc = "duration"
    /\ reader' = [reader EXCEPT !.pc = "done",
                                !.view.last_scan_duration = debugfs.last_scan_duration]
    /\ UNCHANGED << progVars, envVars, obsVars, call, writer, history >>

\* return 0;
show_return ==
    /\ reader.pc = "done"
    /\ reader' = ReaderIdle
    /\ UNCHANGED << progVars, envVars, obsVars, call, writer, history >>

InitShow ==
    /\ call = NoCall
    /\ \E sc \in {x \in Scenarios : x.zones = LayoutD} : InitOn(sc)

NextShow ==
    \/ workfn_scan
    \/ conc_next_zone
    \/ conc_store_duration
    \/ conc_store_time
    \/ conc_memcpy
    \/ conc_memset
    \/ show_open
    \/ show_bucket
    \/ show_time
    \/ show_duration
    \/ show_return

SpecShow == InitShow /\ [][NextShow]_vars

(* ------------------------------------------------------------------ *)
(* The pure functions, called on every input                            *)
(* ------------------------------------------------------------------ *)

\* The int arguments thp_utilization_bucket is called with: every count from
\* MaxOut below 0 to MaxOut above HPAGE_PMD_NR, and the two ends of int.
BucketArgs ==
    ((0 - MaxOut) .. (HPAGE_PMD_NR + MaxOut)) \cup {(0 - INT_MAX) - 1, INT_MAX}

InitCalls ==
    /\ \E sc \in {x \in Scenarios : x.zones = LayoutD /\ x.mem = EmptyMem} : InitOn(sc)
    /\ now = 0
    /\ \E u \in BucketArgs, i \in Buckets : call = [NoCall EXCEPT !.u = u, !.i = i]

\* bucket = thp_utilization_bucket(num_utilized_pages), as in thp_util_scan.
call_thp_utilization_bucket ==
    /\ ~call.bucket_done
    /\ call' = [call EXCEPT !.bucket_done = TRUE, !.bucket = thp_utilization_bucket(call.u)]
    /\ UNCHANGED << progVars, envVars, obsVars, showVars >>

\* One iteration of the for loop of thp_utilization_show: start and end.
call_show_range ==
    /\ ~call.show_done
    /\ call' = [call EXCEPT !.show_done = TRUE, !.range = show_range(call.i)]
    /\ UNCHANGED << progVars, envVars, obsVars, showVars >>

NextCalls == call_thp_utilization_bucket \/ call_show_range

SpecCalls == InitCalls /\ [][NextCalls]_vars

\* The numbers of all-zero pages of the folios of nr pages that
\* thp_number_utilized_pages is called on.
ZeroArgs(nr) ==
    { z \in (0 .. MaxZero)
            \cup ((HPAGE_PMD_NR - MaxZero) .. (HPAGE_PMD_NR + MaxZero))
            \cup ((nr - MaxZero) .. nr) :
        z >= 0 /\ z <= nr }

\* The folios thp_number_utilized_pages is called on: none, and base pages,
\* PMD-sized folios and 1 GiB hugetlb folios, anonymous or not.
FolioArgs ==
    {NoPage} \cup
    UNION { { Page(TRUE, a, nr > 1, nr, z) : a \in BOOLEAN, z \in ZeroArgs(nr) } :
            nr \in {1, HPAGE_PMD_NR, GIGANTIC_NR} }

InitFolio ==
    /\ \E sc \in {x \in Scenarios : x.zones = LayoutD /\ x.mem = EmptyMem} : InitOn(sc)
    /\ now = 0
    /\ \E f \in FolioArgs : call = [NoCall EXCEPT !.folio = f]

\* num_utilized_pages = thp_number_utilized_pages(page_folio(page)), as in
\* thp_util_scan.
call_thp_number_utilized_pages ==
    /\ ~call.utilized_done
    /\ call' = [call EXCEPT !.utilized_done = TRUE,
                            !.utilized = thp_number_utilized_pages(call.folio)]
    /\ UNCHANGED << progVars, envVars, obsVars, showVars >>

NextFolio == call_thp_number_utilized_pages

SpecFolio == InitFolio /\ [][NextFolio]_vars

(* ------------------------------------------------------------------ *)
(* Properties                                                           *)
(* ------------------------------------------------------------------ *)

\* C4: for every utilized count u in 0..HPAGE_PMD_NR and every bucket i,
\* thp_utilization_bucket(u) = i exactly when u lies in the range
\* [start_i, end_i] that thp_utilization_show prints for bucket i.
C4_PrintedRangeIsBucket ==
    (call.bucket_done /\ call.show_done /\ call.u \in 0 .. HPAGE_PMD_NR) =>
        ((call.bucket = call.i) <=> (call.range[1] <= call.u /\ call.u <= call.range[2]))

\* C5: for u in 0..HPAGE_PMD_NR, thp_utilization_bucket(u) is
\* min(floor(u * B / N), B - 1): it lies in 0..B-1, is the floor when below
\* B - 1, is not below the bucket of any smaller count, and 0, 256, 511, 512
\* go to 0, 5, 9, 9; for u < 0 and u > HPAGE_PMD_NR it is -1.
C5_BucketOfCount ==
    call.bucket_done =>
        LET u == call.u
            r == call.bucket
        IN  IF u < 0 \/ u > HPAGE_PMD_NR
            THEN r = -1
            ELSE /\ r \in Buckets
                 /\ r * HPAGE_PMD_NR <= u * THP_UTIL_BUCKET_NR
                 /\ r < THP_UTIL_BUCKET_NR - 1
                      => u * THP_UTIL_BUCKET_NR < (r + 1) * HPAGE_PMD_NR
                 /\ \A v \in 0 .. u : thp_utilization_bucket(v) <= r
                 /\ u = 0 => r = 0
                 /\ u = 256 => r = 5
                 /\ u = 511 => r = 9
                 /\ u = 512 => r = 9

\* C5 witness: the call with a full unit returned the last bucket.
C5_Witness == call.bucket_done /\ call.u = HPAGE_PMD_NR /\ call.bucket = THP_UTIL_BUCKET_NR - 1


\* The firing about to run advances the zone and next_zone returns NULL:
\* the cursor wraps past the last zone.
Wraps == zone_done /\ next_zone(zones, cur_zone) = NULL

RECURSIVE SumThpsUpTo(_, _)
SumThpsUpTo(bk, b) == IF b < 0 THEN 0 ELSE bk[b].nr_thps + SumThpsUpTo(bk, b - 1)

\* The sum over all buckets of nr_thps.
SumThps(bk) == SumThpsUpTo(bk, THP_UTIL_BUCKET_NR - 1)

\* C1: what one thp_utilization_show has read when it returns (the ten
\* buckets and the two times) is one value of thp_scan_debugfs: the initial
\* one or the one some update left.
C1_ShowReadsOneSnapshot == reader.pc = "done" => reader.view \in history

\* C2: at the end of every firing in which the cursor wraps past the last
\* zone, the published buckets equal the accumulator as it was just before
\* the firing, and every accumulator bucket is {0, 0}.
C2_PublishCopiesThenClears ==
    [][Wraps => (debugfs'.buckets = buckets /\ buckets' = ZeroBuckets)]_vars

\* C2 witness: a pass with counts in it has just been published and the
\* accumulator is clear.
C2_Witness ==
    /\ fired = "publish"
    /\ debugfs.buckets # ZeroBuckets
    /\ buckets = ZeroBuckets

\* C3: the published snapshot is all zero until the first pass completes,
\* and it changes only in a firing in which the cursor wraps past the last
\* zone.
C3_SnapshotChangesOnlyAtWrap ==
    /\ [](npublish = 0 => debugfs = ZeroDebugfs)
    /\ [][debugfs' # debugfs => Wraps]_vars

\* C3 witness: the cursor advanced to a zone that is not the first while the
\* accumulator holds counts of the pass in progress, and the snapshot is
\* still the empty one.
C3_Witness ==
    /\ fired = "next_zone"
    /\ scan_zone # first_zone
    /\ buckets # ZeroBuckets
    /\ debugfs = ZeroDebugfs

TheOne(S) == CHOOSE x \in S : TRUE

\* C7: in every bucket of the accumulator and of the snapshot,
\* nr_zero_pages = nr_thps * HPAGE_PMD_NR - (the utilized counts of the units
\* in the bucket's range) and is not negative; a firing that meets exactly
\* one valid unit, of utilized count u, adds 1 and HPAGE_PMD_NR - u to the
\* bucket of u's range and changes no other bucket.
C7_ZeroPagesAccounting ==
    /\ [](\A b \in Buckets :
            /\ buckets[b].nr_zero_pages = buckets[b].nr_thps * HPAGE_PMD_NR - pass_util[b]
            /\ buckets[b].nr_zero_pages >= 0
            /\ debugfs.buckets[b].nr_zero_pages
                 = debugfs.buckets[b].nr_thps * HPAGE_PMD_NR - pub_util[b]
            /\ debugfs.buckets[b].nr_zero_pages >= 0)
    /\ [][(fired' = "scan" /\ Cardinality(ValidAt(lookups', mem)) = 1) =>
            LET u == HPAGE_PMD_NR
                     - pfn_to_online_page(mem, lookups'[TheOne(ValidAt(lookups', mem))]).nr_zero
            IN  buckets' = [buckets EXCEPT ![RangeOf(u)] =
                              [nr_thps |-> @.nr_thps + 1,
                               nr_zero_pages |-> @.nr_zero_pages + (HPAGE_PMD_NR - u)]]]_vars

\* C7 witness: the unit with one utilized page is in bucket 0 with 511 zero
\* pages.
C7_Witness ==
    /\ fired = "scan"
    /\ buckets[0] = [nr_thps |-> 1, nr_zero_pages |-> 511]
    /\ pass_util[0] = 1

\* C8: every published last_scan_duration is >= 0, and every publish
\* leaves last_scan_time strictly greater than it was.
C8_TimeMovesForward ==
    /\ [](debugfs.last_scan_duration >= 0)
    /\ [][Wraps => (/\ debugfs'.last_scan_time > debugfs.last_scan_time
                    /\ debugfs'.last_scan_duration >= 0)]_vars

\* C8 witness: a second pass has been published.
C8_Witness ==
    /\ npublish >= 2
    /\ fired = "publish"
    /\ debugfs.last_scan_duration > 0

\* C9: after every firing the cursor lies within [zone_start, zone_end] of
\* its zone and is a multiple of HPAGE_PMD_NR.
C9_CursorWithinZone ==
    fired # "init" =>
        /\ U64Le(zones[scan_zone].zone_start_pfn, pfn)
        /\ U64Le(pfn, zone_end_pfn(zones[scan_zone]))
        /\ pfn.lo % HPAGE_PMD_NR = 0

\* C10: a firing looks up at most THP_UTIL_SCAN_SIZE frames; a scanning
\* firing moves the cursor forward by at most THP_UTIL_SCAN_SIZE huge pages,
\* and a zone-advancing firing looks up none.
C10_QuantumBound ==
    /\ [](Len(lookups) <= THP_UTIL_SCAN_SIZE)
    /\ [](fired \in {"next_zone", "publish"} => lookups = << >>)
    /\ [][fired' = "scan" =>
            /\ U64Ge(pfn', pfn)
            /\ U64Le(pfn', U64Add(pfn, THP_UTIL_SCAN_SIZE * HPAGE_PMD_NR))]_vars

\* C10 witness: a firing used the whole quantum.
C10_Witness ==
    /\ fired = "scan"
    /\ Len(lookups) = THP_UTIL_SCAN_SIZE
    /\ pfn.lo >= THP_UTIL_SCAN_SIZE * HPAGE_PMD_NR

\* C11: a firing whose scan brings the cursor to the end of a zone that is
\* not the last one, after fewer than THP_UTIL_SCAN_SIZE lookups, leaves the
\* cursor in a following zone: it has gone on to scan there.
C11_QuantumCrossesZones ==
    [][(/\ fired' = "scan"
        /\ Len(lookups') < THP_UTIL_SCAN_SIZE
        /\ U64Ge(pfn', zone_end_pfn(zones[cur_zone]))
        /\ next_zone(zones, cur_zone) # NULL)
       => scan_zone' # cur_zone]_vars

\* C12: after thp_scan_init and after every firing, on either branch, the
\* work is queued again; and with the queued work always run in the end,
\* passes are published again and again.
C12_RearmedAndPublishesForever ==
    /\ [](work.pending)
    /\ []<>(fired = "publish")

\* C12 witness: a pass has been published after the clock passed
\* MaxLiveTime, with the work queued again.
C12_Witness ==
    /\ fired = "publish"
    /\ now = MaxLiveTime
    /\ npublish >= 2
    /\ work = [pending |-> TRUE, delay |-> HZ]

\* C13: thp_number_utilized_pages returns -1 for no folio, a folio that is
\* not anonymous or one that is not large; for any other folio, of whatever
\* number of pages, the result lies in 0..HPAGE_PMD_NR, and for a folio of
\* HPAGE_PMD_NR pages it is the number of its pages that are not all zero.
C13_UtilizedPagesInRange ==
    call.utilized_done =>
        LET f == call.folio
            r == call.utilized
        IN  IF ~f.online \/ ~f.anon \/ ~f.large
            THEN r = -1
            ELSE /\ r \in 0 .. HPAGE_PMD_NR
                 /\ f.nr_pages = HPAGE_PMD_NR => r = f.nr_pages - f.nr_zero

\* C14: a scanning firing changes nothing that is published; the steps that
\* find no page, a unit that is not an anonymous large folio, or a count
\* outside 0..HPAGE_PMD_NR add to no bucket (the unit counts grow by the
\* number of valid units, and not at all when there is none); the cursor
\* moves by HPAGE_PMD_NR for every step taken; and a step that skips is
\* followed by the next step: when the last lookup of a firing that did not
\* use up the quantum is a skip, the cursor after it has reached the end of
\* the zone.
C14_SkipAndContinue ==
    [][fired' = "scan" =>
         LET n == Len(lookups')
             pfn_end == zone_end_pfn(zones[cur_zone])
         IN  /\ debugfs' = debugfs
             /\ SumThps(buckets') = SumThps(buckets) + Cardinality(ValidAt(lookups', mem))
             /\ ValidAt(lookups', mem) = {} => buckets' = buckets
             /\ pfn' = U64Add(pfn, HPAGE_PMD_NR
                                     * (IF n < THP_UTIL_SCAN_SIZE THEN n + 1 ELSE n))
             /\ (/\ n >= 1
                 /\ n < THP_UTIL_SCAN_SIZE
                 /\ ~ValidUnit(pfn_to_online_page(mem, lookups'[n])))
                   => U64Ge(U64Add(pfn, HPAGE_PMD_NR * n), pfn_end)]_vars

\* C14 witness: a firing looked up a frame with a unit that is not valid,
\* later a frame with no page and after that yet another frame, and no
\* bucket has a count.
C14_Witness ==
    /\ fired = "scan"
    /\ \E j, k \in 1 .. Len(lookups) :
          /\ j < k /\ k < Len(lookups)
          /\ pfn_to_online_page(mem, lookups[j]).online
          /\ ~ValidUnit(pfn_to_online_page(mem, lookups[j]))
          /\ ~pfn_to_online_page(mem, lookups[k]).online
    /\ buckets = ZeroBuckets

\* The smallest multiple of HPAGE_PMD_NR that is >= p.
FirstAlignedFrame(p) == MaskLow(U64Add(p, HPAGE_PMD_NR - 1), HPAGE_PMD_NR)

\* C15: after a firing that advanced the zone, to the next zone or round to
\* the first, the cursor is the smallest multiple of HPAGE_PMD_NR that is
\* >= the zone_start_pfn of the zone it is now in.
C15_CursorAtFirstAlignedFrame ==
    fired \in {"next_zone", "publish"} =>
        pfn = FirstAlignedFrame(zones[scan_zone].zone_start_pfn)

\* C16: a firing that finds the current zone not managed looks up no frame
\* and moves the cursor to the next zone, leaving the accumulator and the
\* snapshot as they are; when there is no next zone it moves to the first
\* zone and publishes the pass.
C16_UnmanagedZoneIsSkipped ==
    [][~managed_zone(zones[cur_zone]) =>
         LET nz == next_zone(zones, cur_zone)
         IN  /\ lookups' = << >>
             /\ scan_zone' = (IF nz = NULL THEN first_zone ELSE nz)
             /\ IF nz = NULL
                THEN /\ fired' = "publish"
                     /\ debugfs'.buckets = buckets
                     /\ buckets' = ZeroBuckets
                ELSE /\ fired' = "next_zone"
                     /\ buckets' = buckets
                     /\ debugfs' = debugfs]_vars

\* C16 witness: the last zone spans frames but is not managed, and the
\* firing that found the cursor in it has published a pass with counts.
C16_Witness ==
    /\ fired = "publish"
    /\ ~managed_zone(zones[Len(zones)])
    /\ zones[Len(zones)].spanned_pages > 0
    /\ debugfs.buckets # ZeroBuckets
    /\ lookups = << >>

\* C17: every publish sets last_scan_time to the time of the publish and
\* last_scan_duration to the time since the previous publish; the first
\* publish sets it to the time since thp_scan_init started the scanning.
C17_DurationSincePreviousPass ==
    [][Wraps =>
         /\ debugfs'.last_scan_time = now'
         /\ debugfs'.last_scan_duration
              = now' - (IF npublish = 0 THEN init_time ELSE debugfs.last_scan_time)]_vars

\* The frames of the zone z that are multiples of HPAGE_PMD_NR.
AlignedFrames(z) ==
    { f \in { U64Add(FirstAlignedFrame(z.zone_start_pfn), HPAGE_PMD_NR * k) :
                k \in 0 .. (z.spanned_pages \div HPAGE_PMD_NR) } :
        ~U64Ge(f, zone_end_pfn(z)) }

\* The frames in the sequence lk.
FramesOf(lk) == { lk[k] : k \in 1 .. Len(lk) }

\* C18: every frame a firing looks up lies in [zone_start_pfn, zone_end_pfn)
\* of the zone the cursor is in; no frame is looked up twice in a pass; and
\* when the pass is published every multiple of HPAGE_PMD_NR in every
\* managed zone has been looked up.
C18_EachFrameOncePerPass ==
    /\ [](\A k \in 1 .. Len(lookups) :
            /\ U64Ge(lookups[k], zones[scan_zone].zone_start_pfn)
            /\ ~U64Ge(lookups[k], zone_end_pfn(zones[scan_zone])))
    /\ [](Cardinality(FramesOf(pass_lookups)) = Len(pass_lookups))
    /\ [][Wraps =>
            \A z \in 1 .. Len(zones) :
                managed_zone(zones[z]) =>
                    AlignedFrames(zones[z]) \subseteq FramesOf(pass_lookups)]_vars

\* C19: in a scanning firing the k-th frame looked up is the cursor as it
\* was before the k-th step, thp_scan.pfn + (k - 1) * HPAGE_PMD_NR as an
\* unsigned long, and a firing stops before THP_UTIL_SCAN_SIZE lookups only
\* when that cursor has reached the end of the zone.
C19_StepUsesCursorFrame ==
    [][fired' = "scan" =>
         LET n == Len(lookups')
         IN  /\ \A k \in 1 .. n : lookups'[k] = U64Add(pfn, HPAGE_PMD_NR * (k - 1))
             /\ n < THP_UTIL_SCAN_SIZE =>
                   U64Ge(U64Add(pfn, HPAGE_PMD_NR * n), zone_end_pfn(zones[cur_zone]))]_vars

=============================================================================
